---- MODULE Spec2Model ----
(***************************************************************************)
(* A model of the Lean blueprint plasTeX package                           *)
(* (src/leanblueprint/Packages/blueprint.py): the markup commands that set *)
(* status flags on nodes, the post-parse callback make_lean_data that      *)
(* derives can_state / can_prove / proved / fully_proved over the          *)
(* dependency graphs, DepGraph.subgraph and make_subgraph_html, and the    *)
(* JSON serializer.                                                        *)
(***************************************************************************)
EXTENDS Integers, Sequences, FiniteSets, TLC

(***************************************************************************)
(* Universe.  Nodes are the theorem-like objects of the document; the      *)
(* strict order Before is a topological order of the authored dependency   *)
(* relation (the graphs are acyclic: precondition of DepGraph.ancestors).  *)
(***************************************************************************)
Nodes == {"a", "b", "c"}

None == "none"

Rank(n) == CASE n = "a" -> 1 [] n = "b" -> 2 [] OTHER -> 3

Before(m, n) == Rank(m) < Rank(n)

Sections == <<"s1", "s2">>

SectionNames == {Sections[i] : i \in 1..Len(Sections)}

\* bounds of the model
MaxUses == 2

MaxRuns == 2

VARIABLES
  \* authored node userdata and node attributes
  leanok, notready, mathlibok, leandecls, issue, has_uses, uses, proved_by, kind, id,
  extra,
  \* document userdata
  lean_decls, graphs, legend,
  \* derived node userdata
  lean_urls, can_state, can_prove, proved, fully_proved,
  \* position of make_lean_data and of the host's callback pipeline
  pc, runs, todo, cur, visited, fpdone,
  \* outcome of the hooks as seen by the host
  aborted, warnings, decls_file, json_file,
  \* DepGraph.subgraph, make_subgraph_html and serialize_node
  sub, files, hdone, out,
  \* history: authored 'uses' lists, number of visits, first computed values
  uses0, graphs0, visits, fpvisits, first

authVars == <<leanok, notready, mathlibok, leandecls, issue, has_uses, proved_by,
              kind, id, extra, lean_decls, uses0, graphs0>>

derivedVars == <<lean_urls, can_state, can_prove, proved, fully_proved>>

ctlVars == <<pc, runs, todo, cur, visited, fpdone>>

hookVars == <<aborted, warnings, decls_file, json_file, legend>>

histVars == <<visits, fpvisits, first>>

toolVars == <<sub, files, hdone, out>>

\* what no markup command of this package writes
parseFrame == <<has_uses, proved_by, kind, id, extra, uses0, graphs0, graphs, uses,
                derivedVars, ctlVars, hookVars, histVars, toolVars>>

vars == <<authVars, graphs, uses, derivedVars, ctlVars, hookVars, histVars, toolVars>>

(***************************************************************************)
(* Helpers on sequences and sets.                                          *)
(***************************************************************************)
Range(s) == {s[i] : i \in 1..Len(s)}

\* userdata.get('uses', []): the list stored under 'uses', or a fresh empty list
\* when the key is absent (has_uses is the set of nodes that carry the key)
GetUses(u, n) == IF n \in has_uses THEN u[n] ELSE <<>>

\* all(thm.userdata.get('leanok') for thm in used)
AllLeanok(used) == \A i \in 1..Len(used) : leanok[used[i]]

(***************************************************************************)
(* The markup commands.  Each digest acts on the userdata of the node the  *)
(* command stands in (parentNode); \lean also extends the document's list  *)
(* of declarations.                                                        *)
(***************************************************************************)
\* bound on the length of the document's list of declarations
MaxDecls == 2

Space == " "

\* str.lstrip(ch)
RECURSIVE LStrip(_, _)
LStrip(s, ch) == IF s # <<>> /\ Head(s) = ch THEN LStrip(Tail(s), ch) ELSE s

\* str.rstrip(ch)
RECURSIVE RStrip(_, _)
RStrip(s, ch) ==
  IF s # <<>> /\ s[Len(s)] = ch THEN RStrip(SubSeq(s, 1, Len(s) - 1), ch) ELSE s

\* str.strip()
Strip(s) == RStrip(LStrip(s, Space), Space)

\* the arguments of \lean and \discussion the model draws from
DeclArgs == {<<<<"F">>>>, <<<<Space, "G">>, <<"H", Space>>>>}

IssueArgs == {<<"#", "7">>, <<Space, "#", "8">>, <<"9", Space>>}

cmd_leanok(n) ==
  /\ pc = "parse"
  /\ leanok' = [leanok EXCEPT ![n] = TRUE]
  /\ UNCHANGED <<notready, mathlibok, leandecls, issue, lean_decls>>
  /\ UNCHANGED parseFrame

cmd_notready(n) ==
  /\ pc = "parse"
  /\ notready' = [notready EXCEPT ![n] = TRUE]
  /\ UNCHANGED <<leanok, mathlibok, leandecls, issue, lean_decls>>
  /\ UNCHANGED parseFrame

\* mutant: \mathlibok that forgets to set leanok
cmd_mathlibok_only(n) ==
  /\ pc = "parse"
  /\ mathlibok' = [mathlibok EXCEPT ![n] = TRUE]
  /\ UNCHANGED <<leanok, notready, leandecls, issue, lean_decls>>
  /\ UNCHANGED parseFrame

cmd_mathlibok(n) ==
  /\ pc = "parse"
  /\ leanok' = [leanok EXCEPT ![n] = TRUE]
  /\ mathlibok' = [mathlibok EXCEPT ![n] = TRUE]
  /\ UNCHANGED <<notready, leandecls, issue, lean_decls>>
  /\ UNCHANGED parseFrame

cmd_lean(n, decls) ==
  /\ pc = "parse"
  /\ Len(lean_decls) + Len(decls) <= MaxDecls
  /\ LET stripped == [i \in 1..Len(decls) |-> Strip(decls[i])]
     IN  /\ leandecls' = [leandecls EXCEPT ![n] = stripped]
         /\ lean_decls' = lean_decls \o stripped
  /\ UNCHANGED <<leanok, notready, mathlibok, issue>>
  /\ UNCHANGED parseFrame

cmd_discussion(n, arg) ==
  /\ pc = "parse"
  /\ issue' = [issue EXCEPT ![n] = Strip(LStrip(arg, "#"))]
  /\ UNCHANGED <<leanok, notready, mathlibok, leandecls, lean_decls>>
  /\ UNCHANGED parseFrame

(***************************************************************************)
(* The dependency graph component (plastexdepgraph, consumed through its   *)
(* interface): a graph holds nodes, edges (used, user) and proof_edges     *)
(* (used by the proof, user).                                              *)
(***************************************************************************)
\* graph built for a section from the authored relations of its own nodes
MakeGraph(own, u, pb) ==
  LET e  == {<<m, n>> \in Nodes \X Nodes : n \in own /\ m \in Range(u[n])}
      pe == {<<m, n>> \in Nodes \X Nodes :
               n \in own /\ pb[n] # None /\ m \in Range(u[pb[n]])}
  IN  [nodes       |-> own \cup {x[1] : x \in e \cup pe},
       edges       |-> e,
       proof_edges |-> pe]

predecessors(g, n) == {x[1] : x \in {y \in g.edges \cup g.proof_edges : y[2] = n}}

\* graph.ancestors(node): every node reachable backwards along the edges
RECURSIVE ancestors(_, _)
ancestors(g, n) ==
  LET pred == predecessors(g, n)
  IN  pred \cup UNION {ancestors(g, m) : m \in pred}

\* the None that graph.subgraph returns, in the shape of its other results
NoneGraph == [none |-> TRUE, nodes |-> {}, edges |-> {}, proof_edges |-> {}]

\* item_kind(node)
Kinds == {"definition", "theorem"}

(***************************************************************************)
(* make_lean_data: the post-parse callback (priority 150).  For each graph *)
(* a first loop over the nodes derives lean_urls, can_state, can_prove and *)
(* proved; a second loop derives fully_proved.  The iteration order of the *)
(* node set is not fixed, so each loop body is one step and the node is    *)
(* chosen freely among those the loop has not visited yet.                 *)
(***************************************************************************)
project_dochome == "https://leanprover-community.github.io/mathlib4_docs"

\* (leandecl, f'{project_dochome}/find/#doc/{leandecl}')
LeanUrls(decls) == [i \in 1..Len(decls) |-> <<decls[i], <<project_dochome, "/find/#doc/", decls[i]>>>>]

\* mutant: can_state computed after the proof's prerequisites were appended
UsedForStateLate(u, n) == GetUses(u, n) \o GetUses(u, proved_by[n])

\* the list bound to `used` when can_state is computed
UsedForState(u, n) == GetUses(u, n)

\* the list bound to `used` after used.extend(proof.userdata.get('uses', []))
UsedForProof(u, n) == GetUses(u, n) \o GetUses(u, proved_by[n])

CanState(u, n) == AllLeanok(UsedForState(u, n)) /\ ~notready[n]

CanProve(u, n) == IF proved_by[n] # None THEN AllLeanok(UsedForProof(u, n)) ELSE FALSE

Proved(n) == IF proved_by[n] # None THEN leanok[proved_by[n]] ELSE FALSE

\* used.extend(...) acts on the list object stored in userdata when the key
\* exists, and on a temporary list otherwise
UsesAfterVisit(u, n) ==
  IF proved_by[n] # None /\ n \in has_uses
    THEN [u EXCEPT ![n] = UsedForProof(u, n)]
    ELSE u

\* mutant: the node itself left out of the set the test ranges over
FullyProvedAncestorsOnly(g, n) ==
  \A m \in ancestors(g, n) : proved[m] \/ kind[m] = "definition"

\* all(n.userdata.get('proved', False) or item_kind(n) == 'definition'
\*     for n in graph.ancestors(node).union({node}))
FullyProved(g, n) ==
  \A m \in ancestors(g, n) \cup {n} : proved[m] \/ kind[m] = "definition"

\* mutant: fully_proved derived without waiting for the end of the first loop
PassOneDoneEarly == TRUE

\* the second loop of a graph starts when the first has visited every node
PassOneDone == visited = graphs[cur].nodes

PassTwoDone == PassOneDone /\ fpdone = graphs[cur].nodes

\* the host calls make_lean_data: after parsing, or once more after it returned
StartRun ==
  /\ pc \in {"idle", "make_legend"}
  /\ runs < MaxRuns
  /\ runs' = runs + 1
  /\ pc' = "lean_data"
  /\ cur' = Head(Sections)
  /\ todo' = Tail(Sections)
  /\ visited' = {}
  /\ fpdone' = {}
  /\ UNCHANGED <<authVars, graphs, uses, derivedVars, hookVars, histVars, toolVars>>

VisitNode(n) ==
  /\ pc = "lean_data"
  /\ n \in graphs[cur].nodes \ visited
  /\ lean_urls' = [lean_urls EXCEPT ![n] = LeanUrls(leandecls[n])]
  /\ can_state' = [can_state EXCEPT ![n] = CanState(uses, n)]
  /\ uses' = UsesAfterVisit(uses, n)
  /\ can_prove' = [can_prove EXCEPT ![n] = CanProve(uses, n)]
  /\ proved' = [proved EXCEPT ![n] = Proved(n)]
  /\ visited' = visited \cup {n}
  /\ visits' = [visits EXCEPT ![n] = @ + 1]
  /\ first' = IF visits[n] = 0
                THEN [first EXCEPT !.can_state[n] = can_state'[n],
                                   !.can_prove[n] = can_prove'[n],
                                   !.proved[n] = proved'[n]]
                ELSE first
  /\ UNCHANGED <<authVars, graphs, fully_proved, pc, runs, todo, cur, fpdone, hookVars, fpvisits, toolVars>>

\* the second loop of a graph: it reads proved and kind, which it does not
\* write, so its result does not depend on the order of its iterations
FullyProveAll ==
  /\ pc = "lean_data"
  /\ PassOneDone
  /\ fpdone # graphs[cur].nodes
  /\ fully_proved' = [n \in Nodes |->
                        IF n \in graphs[cur].nodes
                          THEN FullyProved(graphs[cur], n)
                          ELSE fully_proved[n]]
  /\ fpdone' = graphs[cur].nodes
  /\ fpvisits' = [n \in Nodes |->
                    IF n \in graphs[cur].nodes THEN fpvisits[n] + 1 ELSE fpvisits[n]]
  /\ first' = [first EXCEPT !.fully_proved =
                 [n \in Nodes |->
                    IF n \in graphs[cur].nodes /\ fpvisits[n] = 0
                      THEN fully_proved'[n]
                      ELSE first.fully_proved[n]]]
  /\ UNCHANGED <<authVars, graphs, uses, lean_urls, can_state, can_prove, proved,
                 pc, runs, todo, cur, visited, hookVars, visits, toolVars>>

NextGraph ==
  /\ pc = "lean_data"
  /\ PassTwoDone
  /\ todo # <<>>
  /\ cur' = Head(todo)
  /\ todo' = Tail(todo)
  /\ visited' = {}
  /\ fpdone' = {}
  /\ UNCHANGED <<authVars, graphs, uses, derivedVars, pc, runs, hookVars, histVars, toolVars>>

\* lean_decls_path.write_text(...): the last statement of make_lean_data, outside
\* any try block.  ok is whether the file system accepts the write.
WriteLeanDecls(ok) ==
  /\ pc = "lean_data"
  /\ PassTwoDone
  /\ todo = <<>>
  /\ IF ok
       THEN /\ decls_file' = lean_decls
            /\ pc' = "make_legend"
            /\ aborted' = aborted
       ELSE /\ decls_file' = decls_file
            /\ pc' = "raised"
            /\ aborted' = TRUE
  /\ UNCHANGED <<authVars, graphs, uses, derivedVars, runs, todo, cur, visited, fpdone,
                 warnings, json_file, legend, histVars, toolVars>>

(***************************************************************************)
(* serialize_node / serialize_graph / export_to_json.  A userdata value is *)
(* a tagged record: t is "str", "bool" or "none" for a scalar, "list" or   *)
(* "tuple" for a sequence (items), "node" for a node object (n), "obj" for *)
(* any other object whose str() is s, "badobj" for one whose str() raises. *)
(* Strings are sequences of characters.                                    *)
(***************************************************************************)
Val(t, s, n, items) == [t |-> t, s |-> s, n |-> n, items |-> items]

Str(s) == Val("str", s, None, <<>>)

Bool(b) == Val("bool", IF b THEN <<"T">> ELSE <<"F">>, None, <<>>)

NodeRef(n) == Val("node", <<>>, n, <<>>)

List(items) == Val("list", <<>>, None, items)

Tuple(items) == Val("tuple", <<>>, None, items)

Obj(repr) == Val("obj", repr, None, <<>>)

BadObj == Val("badobj", <<>>, None, <<>>)

Absent == Val("absent", <<>>, None, <<>>)

\* isinstance(value, (str, int, float, bool, type(None)))
IsScalar(v) == v.t \in {"str", "bool", "none"}

\* isinstance(value, (list, tuple))
IsList(v) == v.t \in {"list", "tuple"}

\* hasattr(value, 'id')
HasId(v) == v.t = "node"

\* try: str(value) / except: pass -- zero or one result
TryStr(v) == IF v.t = "obj" THEN <<Str(v.s)>> ELSE <<>>

\* one element of a list value: scalars verbatim, a nested list or tuple as a
\* list of the same elements, a node as its id, anything else as its string
SerializeItem(item) ==
  IF IsScalar(item) THEN <<item>>
  ELSE IF IsList(item) THEN <<List(item.items)>>
  ELSE IF HasId(item) THEN <<Str(id[item.n])>>
  ELSE TryStr(item)

RECURSIVE SerializeItems(_)
SerializeItems(items) ==
  IF items = <<>> THEN <<>>
  ELSE SerializeItem(Head(items)) \o SerializeItems(Tail(items))

\* one userdata value: zero results when the key is left out
SerializeValue(value) ==
  IF IsScalar(value) THEN <<value>>
  ELSE IF IsList(value) THEN <<List(SerializeItems(value.items))>>
  ELSE IF HasId(value) THEN <<Str(id[value.n])>>
  ELSE TryStr(value)

\* what json.dump accepts: scalars, and lists or tuples of what it accepts
RECURSIVE Plain(_)
Plain(v) ==
  \/ IsScalar(v)
  \/ IsList(v) /\ \A i \in 1..Len(v.items) : Plain(v.items[i])

\* the keys of node.userdata and their values
UserKeys(n) ==
     {k \in {"leanok"} : leanok[n]} \cup {k \in {"notready"} : notready[n]}
  \cup {k \in {"mathlibok"} : mathlibok[n]} \cup {k \in {"leandecls"} : leandecls[n] # <<>>}
  \cup {k \in {"issue"} : issue[n] # <<>>} \cup {k \in {"uses"} : n \in has_uses}
  \cup {k \in {"proved_by"} : proved_by[n] # None}
  \cup {k \in {"lean_urls", "can_state", "can_prove", "proved"} : visits[n] > 0}
  \cup {k \in {"fully_proved"} : fpvisits[n] > 0}
  \cup {k \in {"extra"} : extra[n] # Absent}

UserData(n) ==
  [k \in UserKeys(n) |->
     CASE k = "leanok" -> Bool(TRUE)
       [] k = "notready" -> Bool(TRUE)
       [] k = "mathlibok" -> Bool(TRUE)
       [] k = "leandecls" -> List([i \in 1..Len(leandecls[n]) |-> Str(leandecls[n][i])])
       [] k = "issue" -> Str(issue[n])
       [] k = "uses" -> List([i \in 1..Len(uses[n]) |-> NodeRef(uses[n][i])])
       [] k = "proved_by" -> NodeRef(proved_by[n])
       [] k = "lean_urls" ->
            List([i \in 1..Len(lean_urls[n]) |->
                    Tuple(<<Str(lean_urls[n][i][1]), Str(lean_urls[n][i][2])>>)])
       [] k = "can_state" -> Bool(can_state[n])
       [] k = "can_prove" -> Bool(can_prove[n])
       [] k = "proved" -> Bool(proved[n])
       [] k = "fully_proved" -> Bool(fully_proved[n])
       [] OTHER -> extra[n]]

\* node.id.split(':')[-1]
LastPart(s) ==
  LET colons == {i \in 1..Len(s) : s[i] = ":"}
      last   == IF colons = {} THEN 0 ELSE CHOOSE i \in colons : \A j \in colons : j <= i
  IN  SubSeq(s, last + 1, Len(s))

serialize_node(n) ==
  LET ud   == UserData(n)
      kept == {k \in DOMAIN ud : SerializeValue(ud[k]) # <<>>}
  IN  [id       |-> id[n],
       kind     |-> kind[n],
       title    |-> LastPart(id[n]),
       userdata |-> [k \in kept |-> SerializeValue(ud[k])[1]]]

serialize_graph(g) ==
  [nodes            |-> [n \in g.nodes |-> serialize_node(n)],
   edges            |-> [e \in g.edges |-> <<id[e[1]], id[e[2]]>>],
   proof_edges      |-> [e \in g.proof_edges |-> <<id[e[1]], id[e[2]]>>],
   node_count       |-> Cardinality(g.nodes),
   edge_count       |-> Cardinality(g.edges),
   proof_edge_count |-> Cardinality(g.proof_edges)]

\* the structure export_to_json hands to json.dump
ExportData ==
  [lean_decls |-> lean_decls,
   legend     |-> legend,
   graphs     |-> [s \in SectionNames |-> serialize_graph(graphs[s])]]

\* json.dump raises on a value that is neither a scalar nor a list or mapping
Dumpable(data) ==
  \A s \in DOMAIN data.graphs : \A n \in DOMAIN data.graphs[s].nodes :
    \A k \in DOMAIN data.graphs[s].nodes[n].userdata :
      Plain(data.graphs[s].nodes[n].userdata[k])

(***************************************************************************)
(* The other post-parse callbacks: make_legend (priority 150, registered   *)
(* after make_lean_data) and export_json_callback (priority 200).          *)
(***************************************************************************)
LegendEntries ==
  <<<<"can_state", "border">>, <<"not_ready", "border">>, <<"can_state", "background">>,
    <<"proved", "border">>, <<"proved", "background">>, <<"fully_proved", "background">>,
    <<"mathlib", "border">>>>

make_legend ==
  /\ pc = "make_legend"
  /\ legend' = legend \o LegendEntries
  /\ pc' = "export"
  /\ UNCHANGED <<authVars, graphs, uses, derivedVars, runs, todo, cur, visited, fpdone,
                 aborted, warnings, decls_file, json_file, histVars, toolVars>>

NoFile == [state |-> "absent", data |-> <<>>]

\* export_to_json opens the file for writing and dumps the data; it logs and
\* re-raises any exception, and export_json_callback logs it and returns.
\* ok is whether the file can be opened and written.
export_json_callback(ok) ==
  /\ pc = "export"
  /\ IF ~ok
       THEN /\ json_file' = json_file
            /\ warnings' = warnings + 2
       ELSE IF Dumpable(ExportData)
       THEN /\ json_file' = [state |-> "full", data |-> ExportData]
            /\ warnings' = warnings
       ELSE /\ json_file' = [state |-> "partial", data |-> <<>>]
            /\ warnings' = warnings + 2
  /\ pc' = "done"
  /\ UNCHANGED <<authVars, graphs, uses, derivedVars, runs, todo, cur, visited, fpdone,
                 aborted, decls_file, legend, histVars, toolVars>>

(***************************************************************************)
(* Initial states: a parsed document.  The authored relations are acyclic  *)
(* (every prerequisite of a node, and of its proof, comes Before it), a    *)
(* node is not its own proof, and the graphs are those the dependency      *)
(* graph component built from the authored relations.                      *)
(***************************************************************************)
RECURSIVE SortedSeq(_)
SortedSeq(S) ==
  IF S = {} THEN <<>>
  ELSE LET m == CHOOSE x \in S : \A y \in S : Rank(x) <= Rank(y)
       IN  <<m>> \o SortedSeq(S \ {m})

UsesChoices(n) ==
  {SortedSeq(S) : S \in {T \in SUBSET {m \in Nodes : Before(m, n)} : Cardinality(T) <= MaxUses}}

AtMostOne(f, v) == Cardinality({n \in Nodes : f[n] = v}) <= 1

DefaultId(n) == <<"t", "h", "m", ":", n>>

SecChoices ==
  {[n \in Nodes |-> "s1"],
   [n \in Nodes |-> IF n = "c" THEN "s2" ELSE "s1"],
   [n \in Nodes |-> IF n = "b" THEN "s2" ELSE "s1"]}

Structure ==
  /\ has_uses \in SUBSET {n \in Nodes : \E m \in Nodes : Before(m, n)}
  /\ uses \in [Nodes -> UNION {UsesChoices(n) : n \in Nodes}]
  /\ \A n \in Nodes : uses[n] \in UsesChoices(n) /\ (n \notin has_uses => uses[n] = <<>>)
  /\ uses0 = uses
  /\ proved_by \in [Nodes -> Nodes \cup {None}]
  /\ \E n \in Nodes : proved_by[n] = None
  /\ \A n \in Nodes :
       proved_by[n] # None =>
         /\ proved_by[n] # n
         /\ \A m \in Range(uses[proved_by[n]]) : Before(m, n)
  /\ \E own \in SecChoices :
       graphs = [s \in SectionNames |->
                   MakeGraph({n \in Nodes : own[n] = s}, uses, proved_by)]
  /\ graphs0 = graphs

Blank ==
  /\ lean_urls = [n \in Nodes |-> <<>>]
  /\ can_state = [n \in Nodes |-> FALSE]
  /\ can_prove = [n \in Nodes |-> FALSE]
  /\ proved = [n \in Nodes |-> FALSE]
  /\ fully_proved = [n \in Nodes |-> FALSE]
  /\ runs = 0 /\ todo = <<>> /\ cur = Head(Sections)
  /\ visited = {} /\ fpdone = {}
  /\ aborted = FALSE /\ warnings = 0 /\ decls_file = <<>> /\ json_file = NoFile
  /\ legend = <<>>
  /\ visits = [n \in Nodes |-> 0]
  /\ fpvisits = [n \in Nodes |-> 0]
  /\ first = [can_state |-> can_state, can_prove |-> can_prove,
              proved |-> proved, fully_proved |-> fully_proved]
  /\ sub = [section |-> Head(Sections), node |-> None, result |-> NoneGraph]
  /\ files = <<>> /\ hdone = {} /\ out = <<>>

Init ==
  /\ leanok \in [Nodes -> BOOLEAN]
  /\ notready \in {[n \in Nodes |-> FALSE], [n \in Nodes |-> n = "c"]}
  /\ mathlibok = [n \in Nodes |-> leanok[n] /\ n = "a"]
  /\ kind \in {f \in [Nodes -> Kinds] : AtMostOne(f, "definition")}
  /\ leandecls = [n \in Nodes |-> IF n = "c" THEN <<<<"F">>, <<"G">>>> ELSE <<>>]
  /\ lean_decls = <<<<"F">>, <<"G">>>>
  /\ issue = [n \in Nodes |-> IF n = "b" THEN <<"7">> ELSE <<>>]
  /\ id = [n \in Nodes |-> DefaultId(n)]
  /\ extra = [n \in Nodes |-> Absent]
  /\ Structure
  /\ Blank
  /\ pc = "idle"

Next ==
  \/ StartRun
  \/ \E n \in Nodes : VisitNode(n)
  \/ FullyProveAll
  \/ NextGraph
  \/ \E ok \in BOOLEAN : WriteLeanDecls(ok)
  \/ make_legend
  \/ \E ok \in BOOLEAN : export_json_callback(ok)

Spec == Init /\ [][Next]_vars

(***************************************************************************)
(* Properties of make_lean_data.                                           *)
(***************************************************************************)
\* the value the contract gives can_state from the authored markup
ContractCanState(n) == (\A m \in Range(uses0[n]) : leanok[m]) /\ ~notready[n]

\* the value the contract gives can_prove from the authored markup
ContractCanProve(n) ==
  /\ proved_by[n] # None
  /\ \A m \in Range(uses0[n]) \cup Range(uses0[proved_by[n]]) : leanok[m]

ContractProved(n) == proved_by[n] # None /\ leanok[proved_by[n]]

\* make_lean_data has returned or raised
AfterLeanData == pc \in {"make_legend", "export", "done", "raised"}

\* both loops of the current graph have run to their end
GraphPassDone ==
  /\ pc = "lean_data"
  /\ visited = graphs[cur].nodes
  /\ fpdone = graphs[cur].nodes

C2_CanProve ==
  \A n \in Nodes :
    visits[n] = 1 =>
      /\ can_prove[n] = ContractCanProve(n)
      /\ proved[n] = ContractProved(n)

\* C3: fully_proved of a graph's nodes is derived only after the first loop has
\* visited every node of the graph, and when both loops have ended fully_proved
\* of every node of the graph is true exactly when every node among its
\* ancestors and itself has its final proved true or is a definition.
C3_FullyProved ==
  pc = "lean_data" =>
    /\ (fpdone # {} => visited = graphs[cur].nodes)
    /\ (GraphPassDone =>
          \A n \in graphs[cur].nodes :
            /\ fully_proved[n] =
                 (\A m \in ancestors(graphs[cur], n) \cup {n} :
                    ContractProved(m) \/ kind[m] = "definition")
            /\ \A m \in ancestors(graphs[cur], n) \cup {n} :
                 proved[m] = ContractProved(m))

\* the end of a graph's pass with a fully proved node that has a theorem among
\* its ancestors, and a node of the graph that is not fully proved
C3_Witness ==
  /\ GraphPassDone
  /\ \E n \in graphs[cur].nodes :
       /\ fully_proved[n]
       /\ \E m \in ancestors(graphs[cur], n) : kind[m] = "theorem"
  /\ \E n \in graphs[cur].nodes : ~fully_proved[n]

\* C4 as stated: after make_lean_data fully_proved implies proved for every
\* node of every graph, definitions included.
C4_FullyProvedImpliesProved ==
  AfterLeanData =>
    \A n \in Nodes : fpvisits[n] > 0 /\ fully_proved[n] => proved[n]

\* C4 amended: after make_lean_data fully_proved implies proved for every node
\* of every graph whose kind is not 'definition'.
C4_Amended ==
  AfterLeanData =>
    \A n \in Nodes :
      fpvisits[n] > 0 /\ kind[n] # "definition" /\ fully_proved[n] => proved[n]

\* after make_lean_data, a fully proved theorem with a definition that is fully
\* proved without being proved
C4_Witness ==
  /\ AfterLeanData
  /\ \E n \in Nodes :
       fpvisits[n] > 0 /\ kind[n] # "definition" /\ fully_proved[n] /\ proved[n]
  /\ \E n \in Nodes :
       fpvisits[n] > 0 /\ kind[n] = "definition" /\ fully_proved[n] /\ ~proved[n]

\* C5: every later derivation of a node's fields (a second run, or a second
\* graph holding the node) yields the values the first derivation gave.
C5_Recomputed ==
  \A n \in Nodes :
    /\ visits[n] > 0 =>
         /\ can_state[n] = first.can_state[n]
         /\ can_prove[n] = first.can_prove[n]
         /\ proved[n] = first.proved[n]
    /\ fpvisits[n] > 0 /\ AfterLeanData => fully_proved[n] = first.fully_proved[n]

\* C6: no hook lets an exception reach the host.
C6_NoPropagation == ~aborted

(***************************************************************************)
(* The document while it is parsed: no node carries a flag yet, and the    *)
(* commands are digested in the order the markup has them.                 *)
(***************************************************************************)
EmptyGraph == [nodes |-> {}, edges |-> {}, proof_edges |-> {}]

InitMarkup ==
  /\ leanok = [n \in Nodes |-> FALSE]
  /\ notready = [n \in Nodes |-> FALSE]
  /\ mathlibok = [n \in Nodes |-> FALSE]
  /\ kind = [n \in Nodes |-> "theorem"]
  /\ leandecls = [n \in Nodes |-> <<>>]
  /\ lean_decls = <<>>
  /\ issue = [n \in Nodes |-> <<>>]
  /\ id = [n \in Nodes |-> DefaultId(n)]
  /\ extra = [n \in Nodes |-> Absent]
  /\ has_uses = {}
  /\ uses = [n \in Nodes |-> <<>>]
  /\ uses0 = uses
  /\ proved_by = [n \in Nodes |-> None]
  /\ graphs = [s \in SectionNames |-> EmptyGraph]
  /\ graphs0 = graphs
  /\ Blank
  /\ pc = "parse"

NextMarkup ==
  \/ \E n \in Nodes : cmd_leanok(n)
  \/ \E n \in Nodes : cmd_notready(n)
  \/ \E n \in Nodes : cmd_mathlibok(n)
  \/ \E n \in Nodes, decls \in DeclArgs : cmd_lean(n, decls)
  \/ \E n \in Nodes, arg \in IssueArgs : cmd_discussion(n, arg)

SpecMarkup == InitMarkup /\ [][NextMarkup]_vars

\* C7: whatever markup commands have been digested, in whatever order, a node
\* that has mathlibok set has leanok set.
C7_MathlibokImpliesLeanok == \A n \in Nodes : mathlibok[n] => leanok[n]

\* a node on which \mathlibok, \notready, \lean and \discussion have all acted,
\* beside a node with leanok alone
C7_Witness ==
  /\ \E n \in Nodes :
       mathlibok[n] /\ notready[n] /\ leandecls[n] # <<>> /\ issue[n] # <<>>
  /\ \E n \in Nodes : leanok[n] /\ ~mathlibok[n]

(***************************************************************************)
(* DepGraph.subgraph (added to the class by ProcessOptions) and            *)
(* make_subgraph_html, the pre-cleanup callback registered when            *)
(* LEANBLUEPRINT_SUBGRAPH=1.                                               *)
(***************************************************************************)
\* mutant: the edges of the original graph copied without the restriction
subgraph_all_edges(g, node) ==
  IF node \notin g.nodes
    THEN [result |-> NoneGraph, self |-> g]
    ELSE [result |-> [none        |-> FALSE,
                      nodes       |-> ancestors(g, node) \cup {node},
                      edges       |-> g.edges,
                      proof_edges |-> g.proof_edges],
          self   |-> g]

\* result: what subgraph returns; self: the graph it was called on, afterwards
subgraph(g, node) ==
  IF node \notin g.nodes
    THEN [result |-> NoneGraph, self |-> g]
    ELSE LET subgraph_nodes == ancestors(g, node) \cup {node}
         IN  [result |->
                [none        |-> FALSE,
                 nodes       |-> subgraph_nodes,
                 edges       |-> {e \in g.edges :
                                    e[1] \in subgraph_nodes /\ e[2] \in subgraph_nodes},
                 proof_edges |-> {e \in g.proof_edges :
                                    e[1] \in subgraph_nodes /\ e[2] \in subgraph_nodes}],
              self   |-> g]

\* str.replace(':', '_').replace('/', '_')
Sanitize(s) == [i \in 1..Len(s) |-> IF s[i] \in {":", "/"} THEN "_" ELSE s[i]]

\* graph_target = f'subgraph_{node_id_safe}.html'
FileName(n) == <<"subgraph_">> \o Sanitize(id[n]) \o <<".html">>

\* SUBGRAPH_LINK_TPL: the href rendered for a node
LinkTarget(n) == <<"subgraph_">> \o Sanitize(id[n]) \o <<".html">>

\* if sub and len(sub.nodes) > 1
GeneratesFile(r) == ~r.none /\ Cardinality(r.nodes) > 1

\* rendering to graph_target overwrites whatever file has that name
Dump(fs, name, content) ==
  [x \in DOMAIN fs \cup {name} |-> IF x = name THEN content ELSE fs[x]]

\* a call of graph.subgraph(node) on the graph of section s
CallSubgraph(s, n) ==
  /\ pc \in {"html_idle", "html_off"}
  /\ sub' = [section |-> s, node |-> n, result |-> subgraph(graphs[s], n).result]
  /\ graphs' = [graphs EXCEPT ![s] = subgraph(graphs[s], n).self]
  /\ UNCHANGED <<authVars, uses, derivedVars, ctlVars, hookVars, histVars, files, hdone, out>>

\* the checks before the loops; tpl is whether the dep_graph.html template exists
SubgraphHtmlStart(tpl) ==
  /\ pc = "html_idle"
  /\ pc' = IF tpl THEN "html" ELSE "html_done"
  /\ UNCHANGED <<authVars, graphs, uses, derivedVars, runs, todo, cur, visited, fpdone,
                 hookVars, histVars, toolVars>>

\* the graphs are taken in the order of the mapping, the nodes of a graph in any
EarlierSectionsDone(s) ==
  \A i, j \in 1..Len(Sections) :
    i < j /\ Sections[j] = s => \A m \in graphs[Sections[i]].nodes : <<Sections[i], m>> \in hdone

\* one iteration of the inner loop
SubgraphHtmlStep(s, n) ==
  /\ pc = "html"
  /\ n \in graphs[s].nodes
  /\ <<s, n>> \notin hdone
  /\ EarlierSectionsDone(s)
  /\ LET call == subgraph(graphs[s], n)
     IN  /\ sub' = [section |-> s, node |-> n, result |-> call.result]
         /\ graphs' = [graphs EXCEPT ![s] = call.self]
         /\ files' = IF GeneratesFile(call.result)
                       THEN Dump(files, FileName(n),
                                 [node |-> n, section |-> s, nodes |-> call.result.nodes])
                       ELSE files
  /\ hdone' = hdone \cup {<<s, n>>}
  /\ UNCHANGED <<authVars, uses, derivedVars, ctlVars, hookVars, histVars, out>>

\* except Exception: log.warning(...); return []
SubgraphHtmlExcept ==
  /\ pc = "html"
  /\ warnings' = warnings + 1
  /\ pc' = "html_raised"
  /\ UNCHANGED <<authVars, graphs, uses, derivedVars, runs, todo, cur, visited, fpdone,
                 aborted, decls_file, json_file, legend, histVars, toolVars>>

\* return files
SubgraphHtmlReturn ==
  /\ pc = "html"
  /\ \A s \in SectionNames : \A n \in graphs[s].nodes : <<s, n>> \in hdone
  /\ pc' = "html_done"
  /\ UNCHANGED <<authVars, graphs, uses, derivedVars, runs, todo, cur, visited, fpdone,
                 hookVars, histVars, toolVars>>

\* identifiers the model draws from: distinct labels, some of which differ only
\* in a character the file name replaces
IdPool == {<<"t", ":", "x">>, <<"t", "_", "x">>, <<"t", "/", "x">>, <<"d", ":", "y">>}

InitSubgraph ==
  /\ leanok = [n \in Nodes |-> n = "a"]
  /\ notready = [n \in Nodes |-> FALSE]
  /\ mathlibok = [n \in Nodes |-> FALSE]
  /\ kind = [n \in Nodes |-> IF n = "a" THEN "definition" ELSE "theorem"]
  /\ leandecls = [n \in Nodes |-> <<>>]
  /\ lean_decls = <<>>
  /\ issue = [n \in Nodes |-> <<>>]
  /\ id \in {f \in [Nodes -> IdPool] : \A m, n \in Nodes : m # n => f[m] # f[n]}
  /\ extra = [n \in Nodes |-> Absent]
  /\ Structure
  /\ has_uses = {n \in Nodes : uses[n] # <<>>}
  /\ Blank
  /\ pc \in {"html_idle", "html_off"}

NextSubgraph ==
  \/ \E s \in SectionNames, n \in Nodes : CallSubgraph(s, n)
  \/ \E tpl \in BOOLEAN : SubgraphHtmlStart(tpl)
  \/ \E s \in SectionNames, n \in Nodes : SubgraphHtmlStep(s, n)
  \/ SubgraphHtmlExcept
  \/ SubgraphHtmlReturn

SpecSubgraph == InitSubgraph /\ [][NextSubgraph]_vars

\* a node of graph g that has at least one prerequisite in g
HasPrerequisite(g, n) == n \in g.nodes /\ predecessors(g, n) # {}

\* C8: graph.subgraph(node) returns None when the node is not in graph.nodes;
\* otherwise its nodes are exactly ancestors(node) and the node, its edges and
\* proof_edges exactly the pairs of the graph with both ends among them, and the
\* graph is as before; a node without prerequisites gives a result holding only
\* that node, and make_subgraph_html writes no file for it.
C8_Subgraph ==
  /\ graphs = graphs0
  /\ sub.node # None =>
       LET g == graphs0[sub.section]
           r == sub.result
       IN  /\ sub.node \notin g.nodes => r.none
           /\ sub.node \in g.nodes =>
                /\ ~r.none
                /\ r.nodes = ancestors(g, sub.node) \cup {sub.node}
                /\ r.edges = g.edges \cap (r.nodes \X r.nodes)
                /\ r.proof_edges = g.proof_edges \cap (r.nodes \X r.nodes)
                /\ (~HasPrerequisite(g, sub.node) => r.nodes = {sub.node})
  /\ \A name \in DOMAIN files :
       HasPrerequisite(graphs0[files[name].section], files[name].node)

\* make_subgraph_html has written a file, has skipped a node without
\* prerequisites, and its last call of subgraph dropped an edge of the graph
C8_Witness ==
  /\ pc = "html"
  /\ files # <<>>
  /\ \E x \in hdone : ~HasPrerequisite(graphs[x[1]], x[2])
  /\ ~sub.result.none
  /\ sub.result.edges # {}
  /\ sub.result.edges # graphs[sub.section].edges

\* C9: when make_subgraph_html returns its list of files, every node with at
\* least one prerequisite has its file subgraph_<sanitized id>.html holding its
\* own subgraph, no other such node has the same file name, and the link
\* rendered for the node points to that file.
C9_OneFilePerNode ==
  pc = "html_done" /\ hdone # {} =>
    \A s \in SectionNames : \A n \in Nodes :
      HasPrerequisite(graphs[s], n) =>
        /\ FileName(n) \in DOMAIN files
        /\ files[FileName(n)].node = n
        /\ LinkTarget(n) = FileName(n)
        /\ \A t \in SectionNames : \A m \in Nodes :
             HasPrerequisite(graphs[t], m) /\ m # n => FileName(m) # FileName(n)

(***************************************************************************)
(* serialize_node and the JSON export on nodes whose userdata holds a      *)
(* value of any shape under a key this package does not know.              *)
(***************************************************************************)
\* bounds on the lengths of a list inside a list and of the list that holds it
MaxInner == 1

MaxOuter == 2

SeqsUpTo(S, k) == UNION {[1..m -> S] : m \in 0..k}

Atoms == {Str(<<"x">>), NodeRef("a"), Obj(<<"o">>)}

InnerLists == {List(q) : q \in SeqsUpTo(Atoms, MaxInner)}
                \cup {Tuple(q) : q \in SeqsUpTo(Atoms, MaxInner)}

Values == Atoms \cup {List(q) : q \in SeqsUpTo(Atoms \cup InnerLists, MaxOuter)}
                \cup {Tuple(q) : q \in SeqsUpTo(Atoms \cup InnerLists, MaxOuter)}

\* a call of serialize_node(node)
CallSerializeNode(n) ==
  /\ pc \in {"export", "done"}
  /\ out' = <<serialize_node(n)>>
  /\ UNCHANGED <<authVars, graphs, uses, derivedVars, ctlVars, hookVars, histVars,
                 sub, files, hdone>>

InitSerialize ==
  /\ leanok = [n \in Nodes |-> n # "c"]
  /\ notready = [n \in Nodes |-> n = "c"]
  /\ mathlibok = [n \in Nodes |-> n = "a"]
  /\ kind = [n \in Nodes |-> IF n = "a" THEN "definition" ELSE "theorem"]
  /\ leandecls = [n \in Nodes |-> IF n = "c" THEN <<<<"F">>, <<"G">>>> ELSE <<>>]
  /\ lean_decls = <<<<"F">>, <<"G">>>>
  /\ issue = [n \in Nodes |-> IF n = "b" THEN <<"7">> ELSE <<>>]
  /\ id = [n \in Nodes |-> DefaultId(n)]
  /\ \E v \in Values, n \in Nodes : extra = [m \in Nodes |-> IF m = n THEN v ELSE Absent]
  /\ has_uses = {"c"}
  /\ uses = [n \in Nodes |-> IF n = "c" THEN <<"a", "b">> ELSE <<>>]
  /\ uses0 = uses
  /\ proved_by = [n \in Nodes |-> IF n = "c" THEN "b" ELSE None]
  /\ graphs = [s \in SectionNames |->
                 MakeGraph(IF s = Head(Sections) THEN Nodes ELSE {}, uses, proved_by)]
  /\ graphs0 = graphs
  /\ Blank
  /\ pc = "export"

NextSerialize ==
  \/ \E n \in Nodes : CallSerializeNode(n)
  \/ \E ok \in BOOLEAN : export_json_callback(ok)

SpecSerialize == InitSerialize /\ [][NextSerialize]_vars

\* C10: serialize_node returns a structure of mappings, sequences and scalars
\* only, with every node reference replaced by its identifier, whatever the
\* shapes of the userdata values, so that the export that can open its file
\* writes it in full.
C10_Serialize ==
  /\ \A i \in 1..Len(out) : \A k \in DOMAIN out[i].userdata : Plain(out[i].userdata[k])
  /\ json_file.state # "partial"

(***************************************************************************)
(* The border color of a node in the dependency graph.  The depgraph       *)
(* renderer calls colorizer(node) on nodes whose userdata holds any        *)
(* combination of the flags; an absent flag reads as false.                *)
(***************************************************************************)
\* the first components of the entries of colors
colors ==
  [mathlib |-> "darkgreen", stated |-> "green", can_state |-> "blue",
   not_ready |-> "#FFAA33", proved |-> "#9CEC8B", can_prove |-> "#A3D6FF",
   defined |-> "#B0ECA3", fully_proved |-> "#1CAC78"]

\* colorizer with the tests of leanok and mathlibok exchanged
colorizer_stated_first(n) ==
  IF leanok[n] THEN colors.stated
  ELSE IF mathlibok[n] THEN colors.mathlib
  ELSE IF can_state[n] THEN colors.can_state
  ELSE IF notready[n] THEN colors.not_ready
  ELSE ""

colorizer(n) ==
  IF mathlibok[n] THEN colors.mathlib
  ELSE IF leanok[n] THEN colors.stated
  ELSE IF can_state[n] THEN colors.can_state
  ELSE IF notready[n] THEN colors.not_ready
  ELSE ""

\* a call of colorizer(node) by the renderer
CallColorizer(n) ==
  /\ pc = "render"
  /\ out' = <<[node |-> n, color |-> colorizer(n)]>>
  /\ UNCHANGED <<authVars, graphs, uses, derivedVars, ctlVars, hookVars, histVars,
                 sub, files, hdone>>

InitColor ==
  /\ leanok \in [Nodes -> BOOLEAN]
  /\ mathlibok \in [Nodes -> BOOLEAN]
  /\ notready \in [Nodes -> BOOLEAN]
  /\ can_state \in [Nodes -> BOOLEAN]
  /\ kind = [n \in Nodes |-> "theorem"]
  /\ leandecls = [n \in Nodes |-> <<>>]
  /\ lean_decls = <<>>
  /\ issue = [n \in Nodes |-> <<>>]
  /\ id = [n \in Nodes |-> DefaultId(n)]
  /\ extra = [n \in Nodes |-> Absent]
  /\ has_uses = {}
  /\ uses = [n \in Nodes |-> <<>>]
  /\ uses0 = uses
  /\ proved_by = [n \in Nodes |-> None]
  /\ graphs = [s \in SectionNames |->
                 MakeGraph(IF s = Head(Sections) THEN Nodes ELSE {}, uses, proved_by)]
  /\ graphs0 = graphs
  /\ lean_urls = [n \in Nodes |-> <<>>]
  /\ can_prove = [n \in Nodes |-> FALSE]
  /\ proved = [n \in Nodes |-> FALSE]
  /\ fully_proved = [n \in Nodes |-> FALSE]
  /\ runs = 1 /\ todo = <<>> /\ cur = Head(Sections)
  /\ visited = {} /\ fpdone = {}
  /\ aborted = FALSE /\ warnings = 0 /\ decls_file = <<>> /\ json_file = NoFile
  /\ legend = <<>>
  /\ visits = [n \in Nodes |-> 0]
  /\ fpvisits = [n \in Nodes |-> 0]
  /\ first = [can_state |-> can_state, can_prove |-> can_prove,
              proved |-> proved, fully_proved |-> fully_proved]
  /\ sub = [section |-> Head(Sections), node |-> None, result |-> NoneGraph]
  /\ files = <<>> /\ hdone = {} /\ out = <<>>
  /\ pc = "render"

NextColor == \E n \in Nodes : CallColorizer(n)

SpecColor == InitColor /\ [][NextColor]_vars

\* the flags of a node that colorizer reads, in the order of their priority
Flags(n) == <<mathlibok[n], leanok[n], can_state[n], notready[n]>>

\* C11: the color colorizer returns for a node is the border color of the
\* first flag set in the order mathlibok, leanok, can_state, notready, and the
\* empty color when none is set; it depends on the four flags only; a node
\* with notready set and no other flag gets the 'not_ready' color.
C11_Colorizer ==
  \A i \in 1..Len(out) :
    LET n == out[i].node
        c == out[i].color
    IN  /\ (mathlibok[n] => c = "darkgreen")
        /\ (~mathlibok[n] /\ leanok[n] => c = "green")
        /\ (~mathlibok[n] /\ ~leanok[n] /\ can_state[n] => c = "blue")
        /\ (~mathlibok[n] /\ ~leanok[n] /\ ~can_state[n] /\ notready[n] => c = "#FFAA33")
        /\ (~mathlibok[n] /\ ~leanok[n] /\ ~can_state[n] /\ ~notready[n] => c = "")
        /\ (Flags(n) = <<FALSE, FALSE, FALSE, TRUE>> => c = colors.not_ready)
        /\ \A m \in Nodes : Flags(m) = Flags(n) => colorizer(m) = c

\* colorizer has returned the 'not_ready' color for a node that has notready
\* alone, while another node has all four flags and a third has none
C11_Witness ==
  /\ \E i \in 1..Len(out) :
       /\ Flags(out[i].node) = <<FALSE, FALSE, FALSE, TRUE>>
       /\ out[i].color = "#FFAA33"
  /\ \E m \in Nodes : Flags(m) = <<TRUE, TRUE, TRUE, TRUE>>
  /\ \E m \in Nodes : Flags(m) = <<FALSE, FALSE, FALSE, FALSE>>

(***************************************************************************)
(* The first loop of make_lean_data as a function of the order in which    *)
(* `for node in nodes` yields the nodes of the graph (graph.nodes is a set).*)
(***************************************************************************)
\* the orders in which a set can be iterated
Orders(S) ==
  {q \in [1..Cardinality(S) -> S] : \A i, j \in 1..Cardinality(S) : q[i] = q[j] => i = j}

\* the first loop over the nodes in the given order, from the 'uses' lists and
\* the derived values in st
RECURSIVE PassOne(_, _)
PassOne(order, st) ==
  IF order = <<>> THEN st
  ELSE LET n == Head(order)
       IN  PassOne(Tail(order),
                   [uses      |-> UsesAfterVisit(st.uses, n),
                    can_state |-> [st.can_state EXCEPT ![n] = CanState(st.uses, n)],
                    can_prove |-> [st.can_prove EXCEPT ![n] = CanProve(st.uses, n)],
                    proved    |-> [st.proved EXCEPT ![n] = Proved(n)]])

\* the values before make_lean_data has visited any node
BeforePassOne ==
  [uses      |-> uses0,
   can_state |-> [n \in Nodes |-> FALSE],
   can_prove |-> [n \in Nodes |-> FALSE],
   proved    |-> [n \in Nodes |-> FALSE]]

\* the first loop of the first graph has ended, in the first run
FirstPassOneDone ==
  /\ pc = "lean_data" /\ runs = 1 /\ cur = Head(Sections)
  /\ PassOneDone /\ fpdone = {}

\* C12: when the first loop of a graph has ended, the can_state, can_prove and
\* proved values of every node of the graph are the values the loop gives in
\* every other order of visiting the nodes of the graph.
C12_OrderIndependent ==
  FirstPassOneDone =>
    \A order \in Orders(graphs[cur].nodes) :
      LET r == PassOne(order, BeforePassOne)
      IN  \A n \in graphs[cur].nodes :
            /\ can_state[n] = r.can_state[n]
            /\ can_prove[n] = r.can_prove[n]
            /\ proved[n] = r.proved[n]

(***************************************************************************)
(* The frame of make_lean_data and what the export shows of it.            *)
(***************************************************************************)
\* the 'uses' entry serialize_node gives for the authored 'uses' list of a node
AuthoredUsesExported(n) ==
  SerializeValue(List([i \in 1..Len(uses0[n]) |-> NodeRef(uses0[n][i])]))[1]

\* a step of make_lean_data
LeanDataStep == pc = "lean_data"

\* C13: no step of make_lean_data changes an authored field of a node
\* (leanok, mathlibok, notready, leandecls, issue, proved_by, the 'uses' list),
\* and the 'uses' entry the export writes for a node that has a proof is the
\* serialization of the node's authored 'uses' list.
C13_Frame ==
  [][/\ LeanDataStep =>
          /\ leanok' = leanok /\ mathlibok' = mathlibok /\ notready' = notready
          /\ leandecls' = leandecls /\ issue' = issue /\ proved_by' = proved_by
          /\ has_uses' = has_uses
          /\ \A n \in has_uses : uses'[n] = uses[n]
     /\ json_file'.state = "full" /\ json_file.state # "full" =>
          \A s \in SectionNames : \A n \in graphs[s].nodes :
            n \in has_uses /\ proved_by[n] # None =>
              json_file'.data.graphs[s].nodes[n].userdata.uses = AuthoredUsesExported(n)
    ]_vars

====
